---- MODULE Spec2Model ----
(***************************************************************************)
(* A model of the command pipeline of the server: the command parser       *)
(* (src/src/command/core.rs) and the server context executor               *)
(* (src/src/server/context.rs).                                            *)
(*                                                                         *)
(* A bulk string (Data::BStr) is a sequence of one-character strings, so   *)
(* that the character tests of the parser (to_uppercase, is_number, the    *)
(* parse::<T>() calls) are computed and not looked up.  A decoded array    *)
(* (&[Data]) is a sequence of bulk strings.                                *)
(***************************************************************************)
EXTENDS Integers, Sequences, FiniteSets, TLC

\* ------------------------------------------------------------------ bounds

\* Longest argument list (the array without the command name) the parser
\* specification draws for a command other than XREAD.
MaxArgs == 4

\* Longest argument list the parser specification draws for XREAD.
MaxXreadArgs == 5

\* Number of arrays the clients send in the server specification.
MaxRequests == 3

\* Number of arrays the clients send in the replication specification.
MaxReplRequests == 3

\* Number of arrays the clients send in the transaction specification.
MaxTxnRequests == 4

\* Number of arrays the clients send in the SET/GET specification.
MaxSetGetRequests == 4

\* Number of arrays the clients send in the propagation specification.
MaxWireRequests == 3

\* Number of arrays the clients send in the rejection specification.
MaxRejectRequests == 3

\* Number of arrays the clients send in the list specification.
MaxListRequests == 3

\* Number of arrays the clients send in the ordering specification.
MaxOrderRequests == 2

\* Number of arrays the clients send in the isolation specification.
MaxIsoRequests == 5

\* Number of arrays the clients send in the blocking specification.
MaxBlockRequests == 3

\* Last value of the clock.
MaxTime == 2

\* ------------------------------------------------------------- characters

Digits == {"0", "1", "2", "3", "4", "5", "6", "7", "8", "9"}

DigitVal(c) ==
    CASE c = "0" -> 0 [] c = "1" -> 1 [] c = "2" -> 2 [] c = "3" -> 3
      [] c = "4" -> 4 [] c = "5" -> 5 [] c = "6" -> 6 [] c = "7" -> 7
      [] c = "8" -> 8 [] c = "9" -> 9

DigitChar(d) ==
    CASE d = 0 -> "0" [] d = 1 -> "1" [] d = 2 -> "2" [] d = 3 -> "3"
      [] d = 4 -> "4" [] d = 5 -> "5" [] d = 6 -> "6" [] d = 7 -> "7"
      [] d = 8 -> "8" [] d = 9 -> "9"

\* char::to_ascii_uppercase, as used by to_uppercase / eq_ignore_ascii_case.
UpperChar(c) ==
    CASE c = "a" -> "A" [] c = "b" -> "B" [] c = "c" -> "C" [] c = "d" -> "D"
      [] c = "e" -> "E" [] c = "f" -> "F" [] c = "g" -> "G" [] c = "h" -> "H"
      [] c = "i" -> "I" [] c = "j" -> "J" [] c = "k" -> "K" [] c = "l" -> "L"
      [] c = "m" -> "M" [] c = "n" -> "N" [] c = "o" -> "O" [] c = "p" -> "P"
      [] c = "q" -> "Q" [] c = "r" -> "R" [] c = "s" -> "S" [] c = "t" -> "T"
      [] c = "u" -> "U" [] c = "v" -> "V" [] c = "w" -> "W" [] c = "x" -> "X"
      [] c = "y" -> "Y" [] c = "z" -> "Z" [] OTHER -> c

to_uppercase(s) == [i \in 1..Len(s) |-> UpperChar(s[i])]

eq_ignore_ascii_case(s, t) == to_uppercase(s) = to_uppercase(t)

\* fn is_number(val: &str) -> bool: every character is a digit, '.' or '-'.
\* The empty string passes (all() of nothing).
is_number(val) ==
    \A i \in 1..Len(val) : val[i] \in Digits \/ val[i] = "." \/ val[i] = "-"

\* --------------------------------------------------------- str::parse::<T>

AllDigits(s) == \A i \in 1..Len(s) : s[i] \in Digits

RECURSIVE DigitsValue(_)
DigitsValue(s) ==
    IF Len(s) = 0 THEN 0
    ELSE 10 * DigitsValue(SubSeq(s, 1, Len(s) - 1)) + DigitVal(s[Len(s)])

\* parse::<usize>() / parse::<u64>() restricted to the characters is_number
\* lets through: one or more digits, no sign.  (The strings of the model are
\* far too short to overflow 64 bits.)
ParseUnsignedOk(s) == Len(s) >= 1 /\ AllDigits(s)

ParseUnsigned(s) == DigitsValue(s)

\* parse::<i64>() / parse::<isize>(): an optional '-', then one or more digits.
ParseSignedOk(s) ==
    /\ Len(s) >= 1
    /\ IF s[1] = "-" THEN Len(s) >= 2 /\ AllDigits(Tail(s)) ELSE AllDigits(s)

ParseSigned(s) == IF s[1] = "-" THEN 0 - DigitsValue(Tail(s)) ELSE DigitsValue(s)

Unsigned(s) == IF Len(s) >= 1 /\ s[1] = "-" THEN Tail(s) ELSE s

DotCount(s) == Cardinality({i \in 1..Len(s) : s[i] = "."})

DigitCount(s) == Cardinality({i \in 1..Len(s) : s[i] \in Digits})

\* parse::<f64>() restricted to the characters is_number lets through: an
\* optional '-', digits with at most one '.', at least one digit.
ParseFloatOk(s) ==
    LET u == Unsigned(s) IN
    /\ \A i \in 1..Len(u) : u[i] \in Digits \/ u[i] = "."
    /\ DotCount(u) <= 1
    /\ DigitCount(u) >= 1

DotPos(u) == IF DotCount(u) = 0 THEN Len(u) + 1 ELSE CHOOSE i \in 1..Len(u) : u[i] = "."

\* The parsed decimal as sign, mantissa and number of fractional digits:
\* value = (neg ? -1 : 1) * mant / 10^frac.
ParseFloat(s) ==
    LET u == Unsigned(s)
        p == DotPos(u)
        ip == SubSeq(u, 1, p - 1)
        fp == SubSeq(u, p + 1, Len(u))
    IN  [neg |-> Len(s) >= 1 /\ s[1] = "-",
         mant |-> DigitsValue(ip \o fp),
         frac |-> Len(fp)]

RECURSIVE Pow10(_)
Pow10(n) == IF n = 0 THEN 1 ELSE 10 * Pow10(n - 1)

\* (x * 1000f64) as u64: the cast truncates toward zero and saturates, so a
\* negative product becomes 0.
MillisAsU64(x) == IF x.neg THEN 0 ELSE (x.mant * 1000) \div Pow10(x.frac)

\* ------------------------------------------------------------ wire encoding

CRLF == <<"\r", "\n">>

RECURSIVE DecStr(_)
DecStr(n) == IF n < 10 THEN <<DigitChar(n)>> ELSE DecStr(n \div 10) \o <<DigitChar(n % 10)>>

EncodeBStr(s) == <<"$">> \o DecStr(Len(s)) \o CRLF \o s \o CRLF

RECURSIVE EncodeAll(_)
EncodeAll(val) == IF Len(val) = 0 THEN <<>> ELSE EncodeBStr(Head(val)) \o EncodeAll(Tail(val))

\* A re-encoding that leaves the command name out.
RawOfArguments(val) == <<"*">> \o DecStr(Len(val) - 1) \o CRLF \o EncodeAll(Tail(val))

\* fn get_raw_array_command(val: &[Data]) -> String: the array re-encoded as
\* a RESP array of bulk strings.
get_raw_array_command(val) == <<"*">> \o DecStr(Len(val)) \o CRLF \o EncodeAll(val)

\* ------------------------------------------------------------------ Option

None == [some |-> FALSE]

Some(x) == [some |-> TRUE, v |-> x]

\* ----------------------------------------------------------------- parser

\* A panic of the parsing code (an unwrap() on Err, a slice index out of
\* range, an arithmetic overflow): the task running the parser unwinds and no
\* Command value is produced.
Panicked == [type |-> "panic"]

Invalid == [type |-> "Invalid"]

\* handlers::get_timestamp(expiry_ms) -> Option<u64>: the absolute expiry
\* time, the current time plus the PX argument.
get_timestamp(expiry_ms, now_ms) ==
    IF ParseUnsignedOk(expiry_ms) THEN Some(now_ms + ParseUnsigned(expiry_ms)) ELSE None

\* common::parse_string_args(&val[2..]): the bulk strings from the third
\* element on.
parse_string_args(val) == SubSeq(val, 3, Len(val))

\* rust_decimal::Decimal::from_str_exact(score).unwrap_or_default()
DecimalOrDefault(s) ==
    IF ParseFloatOk(s) THEN ParseFloat(s) ELSE [neg |-> FALSE, mant |-> 0, frac |-> 0]

\* A zip that builds each pair the wrong way round.
ZipSwapped(left, right) ==
    LET m == IF Len(left) < Len(right) THEN Len(left) ELSE Len(right)
    IN  [i \in 1..m |-> <<right[i], left[i]>>]

\* left.iter().zip(right.iter()): pairs up to the shorter length.
Zip(left, right) ==
    LET m == IF Len(left) < Len(right) THEN Len(left) ELSE Len(right)
    IN  [i \in 1..m |-> <<left[i], right[i]>>]

\* fn parse_xread(val: &[Data]) -> Command.  val is the whole array, the
\* command name included; Rust's val[i] is val[i + 1] here.
parse_xread(val) ==
    IF Len(val) < 3 THEN Panicked                       \* &val[1..=2]
    ELSE
    LET isBlock == eq_ignore_ascii_case(val[2], <<"B", "L", "O", "C", "K">>) /\ is_number(val[3])
        stream_start == IF isBlock THEN 4 ELSE 2
    IN  IF isBlock /\ ~ParseUnsignedOk(val[3]) THEN Panicked   \* parse::<u64>().unwrap()
        ELSE IF stream_start > Len(val) THEN Panicked          \* val[stream_start..]
        ELSE
        LET rest == SubSeq(val, stream_start + 1, Len(val))
            mid == Len(rest) \div 2
            left == SubSeq(rest, 1, mid)
            right == SubSeq(rest, mid + 1, Len(rest))
        IN  [type |-> "XRead",
             streams |-> Zip(left, right),
             block |-> IF isBlock THEN Some(ParseUnsigned(val[3])) ELSE None]

\* fn parse_blpop(val: &[Data]) -> Command.  val is the array without the
\* command name.
parse_blpop(val) ==
    IF Len(val) = 0 THEN Panicked                       \* val.len() - 1
    ELSE
    LET keys == SubSeq(val, 1, Len(val) - 1)
        timeout == val[Len(val)]
    IN  IF ~is_number(timeout) THEN Invalid
        ELSE IF ~ParseFloatOk(timeout) THEN Panicked    \* parse::<f64>().unwrap()
        ELSE [type |-> "BLPop", keys |-> keys, block_ms |-> MillisAsU64(ParseFloat(timeout))]

\* A SET arm whose key and value are taken in the wrong order.
SetCommandSwapped(val, expiry) ==
    [type |-> "Set", key |-> val[3], value |-> val[2], expiry |-> expiry,
     raw_command |-> get_raw_array_command(val)]

\* The Command::Set both SET arms build: the key is the array's second
\* element, the value its third.
SetCommand(val, expiry) ==
    [type |-> "Set", key |-> val[2], value |-> val[3], expiry |-> expiry,
     raw_command |-> get_raw_array_command(val)]

\* impl From<&[Data]> for Command.  The arms are tried in the order of the
\* match; now_ms is the clock get_timestamp reads.
CommandFrom(val, now_ms) ==
    IF Len(val) = 0 THEN Invalid
    ELSE
    LET command == to_uppercase(val[1])
        a == Tail(val)
        n == Len(a)
    IN
    IF command = <<"P", "I", "N", "G">> /\ n = 0 THEN [type |-> "Ping"]
    ELSE IF command = <<"E", "C", "H", "O">> /\ n = 1 THEN [type |-> "Echo", value |-> a[1]]
    ELSE IF command = <<"G", "E", "T">> /\ n = 1 THEN [type |-> "Get", key |-> a[1]]
    ELSE IF command = <<"S", "E", "T">> /\ n = 4 /\ eq_ignore_ascii_case(a[3], <<"P", "X">>) THEN
        SetCommand(val, get_timestamp(a[4], now_ms))
    ELSE IF command = <<"S", "E", "T">> /\ n = 2 THEN
        SetCommand(val, None)
    ELSE IF command = <<"C", "O", "N", "F", "I", "G">> /\ n = 2 /\ eq_ignore_ascii_case(a[1], <<"G", "E", "T">>) THEN
        [type |-> "ConfigGet", key |-> a[2]]
    ELSE IF command = <<"K", "E", "Y", "S">> /\ n = 1 THEN [type |-> "Keys", pattern |-> a[1]]
    ELSE IF command = <<"I", "N", "F", "O">> /\ n = 1 /\ eq_ignore_ascii_case(a[1], <<"R", "E", "P", "L", "I", "C", "A", "T", "I", "O", "N">>) THEN
        [type |-> "Info"]
    ELSE IF command = <<"P", "S", "Y", "N", "C">> /\ n = 2 THEN
        [type |-> "Psync", replica_id |-> a[1], offset |-> a[2]]
    ELSE IF command = <<"R", "E", "P", "L", "C", "O", "N", "F">> /\ n >= 2 /\ eq_ignore_ascii_case(a[1], <<"G", "E", "T", "A", "C", "K">>)
            /\ a[2] = <<"*">> THEN
        [type |-> "ReplconfGetAck", arg |-> a[2]]
    ELSE IF command = <<"R", "E", "P", "L", "C", "O", "N", "F">> /\ n >= 2 /\ eq_ignore_ascii_case(a[1], <<"A", "C", "K">>)
            /\ is_number(a[2]) THEN
        IF ParseUnsignedOk(a[2])
        THEN [type |-> "ReplconfAck", offset |-> ParseUnsigned(a[2])]
        ELSE Panicked
    ELSE IF command = <<"R", "E", "P", "L", "C", "O", "N", "F">> THEN [type |-> "Replconf"]
    ELSE IF command = <<"W", "A", "I", "T">> /\ n = 2 /\ is_number(a[1]) /\ is_number(a[2]) THEN
        IF ParseSignedOk(a[1]) /\ ParseUnsignedOk(a[2])
        THEN [type |-> "Wait", num_replicas |-> ParseSigned(a[1]),
              timeout |-> ParseUnsigned(a[2])]
        ELSE Panicked
    ELSE IF command = <<"T", "Y", "P", "E">> /\ n = 1 THEN [type |-> "Type", key |-> a[1]]
    ELSE IF command = <<"X", "A", "D", "D">> /\ n = 4 THEN
        [type |-> "XAdd", key |-> a[1], id |-> a[2], entry |-> <<a[3], a[4]>>]
    ELSE IF command = <<"X", "R", "A", "N", "G", "E">> /\ n = 3 THEN
        [type |-> "XRange", key |-> a[1], start |-> a[2], end |-> a[3]]
    ELSE IF command = <<"X", "R", "E", "A", "D">> THEN parse_xread(val)
    ELSE IF command = <<"I", "N", "C", "R">> /\ n = 1 THEN
        [type |-> "Incr", key |-> a[1], raw_command |-> get_raw_array_command(val)]
    ELSE IF command = <<"M", "U", "L", "T", "I">> THEN [type |-> "Multi"]
    ELSE IF command = <<"E", "X", "E", "C">> THEN [type |-> "Exec"]
    ELSE IF command = <<"D", "I", "S", "C", "A", "R", "D">> THEN [type |-> "Discard"]
    ELSE IF command = <<"R", "P", "U", "S", "H">> /\ n >= 1 THEN
        [type |-> "ListPush", key |-> a[1], values |-> parse_string_args(val),
         is_left |-> FALSE, raw_command |-> get_raw_array_command(val)]
    ELSE IF command = <<"L", "P", "U", "S", "H">> /\ n >= 1 THEN
        [type |-> "ListPush", key |-> a[1], values |-> parse_string_args(val),
         is_left |-> TRUE, raw_command |-> get_raw_array_command(val)]
    ELSE IF command = <<"L", "R", "A", "N", "G", "E">> /\ n = 3 /\ is_number(a[2]) /\ is_number(a[3]) THEN
        IF ParseSignedOk(a[2]) /\ ParseSignedOk(a[3])
        THEN [type |-> "LRange", key |-> a[1], start |-> ParseSigned(a[2]),
              end |-> ParseSigned(a[3])]
        ELSE Panicked
    ELSE IF command = <<"L", "L", "E", "N">> /\ n = 1 THEN [type |-> "LLen", key |-> a[1]]
    ELSE IF command = <<"L", "P", "O", "P">> /\ n = 2 /\ is_number(a[2]) THEN
        IF ParseUnsignedOk(a[2])
        THEN [type |-> "LPop", key |-> a[1], count |-> ParseUnsigned(a[2])]
        ELSE Panicked
    ELSE IF command = <<"L", "P", "O", "P">> /\ n = 1 THEN [type |-> "LPop", key |-> a[1], count |-> 1]
    ELSE IF command = <<"B", "L", "P", "O", "P">> THEN parse_blpop(a)
    ELSE IF command = <<"S", "U", "B", "S", "C", "R", "I", "B", "E">> /\ n = 1 THEN [type |-> "Subscribe", channel |-> a[1]]
    ELSE IF command = <<"P", "U", "B", "L", "I", "S", "H">> /\ n = 2 THEN
        [type |-> "Publish", channel |-> a[1], message |-> a[2]]
    ELSE IF command = <<"Z", "A", "D", "D">> /\ n = 3 THEN
        [type |-> "ZAdd", key |-> a[1], score |-> DecimalOrDefault(a[2]), member |-> a[3]]
    ELSE IF command = <<"Z", "R", "A", "N", "K">> /\ n = 2 THEN [type |-> "ZRank", key |-> a[1], member |-> a[2]]
    ELSE IF command = <<"Z", "R", "A", "N", "G", "E">> /\ n = 3 /\ is_number(a[2]) /\ is_number(a[3]) THEN
        IF ParseSignedOk(a[2]) /\ ParseSignedOk(a[3])
        THEN [type |-> "ZRange", key |-> a[1], start |-> ParseSigned(a[2]),
              end |-> ParseSigned(a[3])]
        ELSE Panicked
    ELSE IF command = <<"Z", "C", "A", "R", "D">> /\ n = 1 THEN [type |-> "ZCard", key |-> a[1]]
    ELSE IF command = <<"Z", "S", "C", "O", "R", "E">> /\ n = 2 THEN
        [type |-> "ZScore", key |-> a[1], member |-> a[2]]
    ELSE IF command = <<"Z", "R", "E", "M">> /\ n = 2 THEN [type |-> "ZRem", key |-> a[1], member |-> a[2]]
    ELSE IF command = <<"G", "E", "O", "A", "D", "D">> /\ n = 4 THEN
        [type |-> "Geoadd", key |-> a[1], point |-> [latitude |-> a[3], longitude |-> a[2]],
         member |-> a[4]]
    ELSE IF command = <<"G", "E", "O", "P", "O", "S">> /\ n >= 1 THEN
        [type |-> "Geopos", key |-> a[1], members |-> parse_string_args(val)]
    ELSE IF command = <<"G", "E", "O", "D", "I", "S", "T">> /\ n = 3 THEN
        [type |-> "Geodist", key |-> a[1], from |-> a[2], to |-> a[3]]
    ELSE IF command = <<"G", "E", "O", "S", "E", "A", "R", "C", "H">> /\ n = 7 THEN
        [type |-> "Geosearch", key |-> a[1],
         point |-> [latitude |-> a[4], longitude |-> a[3]],
         radius |-> DecimalOrDefault(a[6]), unit |-> a[7]]
    ELSE IF command = <<"A", "C", "L">> /\ n >= 1 THEN
        [type |-> "Acl", command |-> a[1], args |-> parse_string_args(val)]
    ELSE Invalid

\* An is_blocking that takes every XREAD for blocking.
IsBlockingAnyXRead(cmd) == cmd.type = "XRead" \/ cmd.type = "BLPop"

\* Command::is_blocking
is_blocking(cmd) ==
    \/ cmd.type = "XRead" /\ cmd.block.some
    \/ cmd.type = "BLPop"

\* ------------------------------------------------------------------- store
\* The store (crate::store) is a map from keys to entries.  An entry is
\* [value, expires_at]; a value is one of
\*   [kind |-> "String", s],  [kind |-> "List", items],
\*   [kind |-> "Stream", entries],  [kind |-> "ZSet", members].

Put(st, key, entry) ==
    [x \in (DOMAIN st) \cup {key} |-> IF x = key THEN entry ELSE st[x]]

Remove(st, key) == [x \in (DOMAIN st) \ {key} |-> st[x]]

StringValue(s) == [kind |-> "String", s |-> s]

\* An entry is expired once the clock has passed its expires_at.
IsExpired(entry, now_ms) == entry.expires_at.some /\ now_ms > entry.expires_at.v

\* The keys a read at now_ms observes.
Live(st, key, now_ms) == key \in DOMAIN st /\ ~IsExpired(st[key], now_ms)

\* Expired entries are deleted lazily by the operation that meets them.
Purge(st, key, now_ms) ==
    IF key \in DOMAIN st /\ IsExpired(st[key], now_ms) THEN Remove(st, key) ELSE st

\* InMemoryStore::set(key, value, expiry): replaces whatever is there.
StoreSet(st, key, value, expiry) ==
    Put(st, key, [value |-> StringValue(value), expires_at |-> expiry])

\* handlers::get(key, store) -> Data: the string, or null.
HandlersGet(st, key, now_ms) ==
    IF Live(st, key, now_ms) /\ st[key].value.kind = "String"
    THEN [t |-> "BStr", v |-> st[key].value.s]
    ELSE [t |-> "Null"]

\* i64::to_string
SignedStr(n) == IF n < 0 THEN <<"-">> \o DecStr(0 - n) ELSE DecStr(n)

\* InMemoryStore::incr(key) -> i64: the new value; 0 when the stored value is
\* no signed integer.  An absent key becomes 1.  [value, store]
StoreIncr(st, key, now_ms) ==
    LET s == Purge(st, key, now_ms) IN
    IF key \notin DOMAIN s
    THEN [value |-> 1, store |-> Put(s, key, [value |-> StringValue(<<"1">>), expires_at |-> None])]
    ELSE IF s[key].value.kind = "String" /\ ParseSignedOk(s[key].value.s)
    THEN LET n == ParseSigned(s[key].value.s) + 1
         IN  [value |-> n,
              store |-> Put(s, key, [s[key] EXCEPT !.value = StringValue(SignedStr(n))])]
    ELSE [value |-> 0, store |-> s]

RECURSIVE Reverse(_)
Reverse(s) == IF Len(s) = 0 THEN <<>> ELSE Append(Reverse(Tail(s)), Head(s))

\* InMemoryStore::list_push(key, values, is_left) -> Result<usize>: creates the
\* list on demand; a key of another kind is a wrong-kind error.
\* [ok, len, store]
StoreListPush(st, key, values, is_left, now_ms) ==
    LET s == Purge(st, key, now_ms)
        old == IF key \in DOMAIN s THEN s[key].value.items ELSE <<>>
        items == IF is_left THEN Reverse(values) \o old ELSE old \o values
    IN  IF key \in DOMAIN s /\ s[key].value.kind # "List"
        THEN [ok |-> FALSE, len |-> 0, store |-> s]
        ELSE [ok |-> TRUE, len |-> Len(items),
              store |-> Put(s, key, [value |-> [kind |-> "List", items |-> items],
                                     expires_at |-> None])]

Min(x, y) == IF x < y THEN x ELSE y

\* InMemoryStore::list_pop(key, count) -> Option<Vec<String>>: up to count
\* elements from the head; None when there is no list under the key.
\* [some, values, store]
StoreListPop(st, key, count, now_ms) ==
    LET s == Purge(st, key, now_ms) IN
    IF key \in DOMAIN s /\ s[key].value.kind = "List"
    THEN LET items == s[key].value.items
             k == Min(count, Len(items))
         IN  [some |-> TRUE, values |-> SubSeq(items, 1, k),
              store |-> Put(s, key, [s[key] EXCEPT !.value.items = SubSeq(items, k + 1, Len(items))])]
    ELSE [some |-> FALSE, values |-> <<>>, store |-> s]

\* InMemoryStore::list_len(key)
StoreListLen(st, key, now_ms) ==
    IF Live(st, key, now_ms) /\ st[key].value.kind = "List" THEN Len(st[key].value.items) ELSE 0

\* An explicit stream id "ms-seq" as <<ms, seq>>.
DashPos(id) == IF \E i \in 1..Len(id) : id[i] = "-" THEN CHOOSE i \in 1..Len(id) : id[i] = "-" ELSE 0

StreamIdOk(id) ==
    LET p == DashPos(id) IN
    /\ p > 1 /\ p < Len(id)
    /\ AllDigits(SubSeq(id, 1, p - 1)) /\ AllDigits(SubSeq(id, p + 1, Len(id)))

StreamId(id) ==
    LET p == DashPos(id)
    IN  <<DigitsValue(SubSeq(id, 1, p - 1)), DigitsValue(SubSeq(id, p + 1, Len(id)))>>

IdLess(x, y) == x[1] < y[1] \/ (x[1] = y[1] /\ x[2] < y[2])

\* InMemoryStore::add_stream(key, id, entry) -> Result<String>, for an explicit
\* id: the id must exceed 0-0 and the stream's last id.
\* [ok, id, store]
StoreAddStream(st, key, id, entry, now_ms) ==
    LET s == Purge(st, key, now_ms)
        old == IF key \in DOMAIN s /\ s[key].value.kind = "Stream"
               THEN s[key].value.entries ELSE <<>>
        last == IF Len(old) = 0 THEN <<0, 0>> ELSE old[Len(old)][1]
    IN  IF /\ StreamIdOk(id)
           /\ IdLess(last, StreamId(id))
           /\ (key \in DOMAIN s => s[key].value.kind = "Stream")
        THEN [ok |-> TRUE, id |-> id,
              store |-> Put(s, key, [value |-> [kind |-> "Stream",
                                                entries |-> Append(old, <<StreamId(id), entry>>)],
                                     expires_at |-> None])]
        ELSE [ok |-> FALSE, id |-> id, store |-> s]

\* InMemoryStore::zadd(key, score, member) -> i64: 1 when the member is new,
\* 0 when its score was updated.  [value, store]
StoreZAdd(st, key, score, member, now_ms) ==
    LET s == Purge(st, key, now_ms)
        old == IF key \in DOMAIN s /\ s[key].value.kind = "ZSet"
               THEN s[key].value.members ELSE <<>>
        members == [m \in (DOMAIN old) \cup {member} |-> IF m = member THEN score ELSE old[m]]
    IN  IF key \in DOMAIN s /\ s[key].value.kind # "ZSet"
        THEN [value |-> 0, store |-> s]
        ELSE [value |-> IF member \in DOMAIN old THEN 0 ELSE 1,
              store |-> Put(s, key, [value |-> [kind |-> "ZSet", members |-> members],
                                     expires_at |-> None])]

\* InMemoryStore::zrem(key, member) -> i64: the number of members removed.
StoreZRem(st, key, member, now_ms) ==
    LET s == Purge(st, key, now_ms) IN
    IF key \in DOMAIN s /\ s[key].value.kind = "ZSet" /\ member \in DOMAIN s[key].value.members
    THEN LET old == s[key].value.members
         IN  [value |-> 1,
              store |-> Put(s, key, [s[key] EXCEPT
                            !.value.members = [m \in (DOMAIN old) \ {member} |-> old[m]]])]
    ELSE [value |-> 0, store |-> s]

\* handlers::type_handler(key, store)
TypeHandler(st, key, now_ms) ==
    IF ~Live(st, key, now_ms) THEN "none"
    ELSE LET k == st[key].value.kind
         IN  IF k = "String" THEN "string" ELSE IF k = "List" THEN "list"
             ELSE IF k = "Stream" THEN "stream" ELSE "zset"

\* coords::validate_coords(point) -> Option<String>: None when the latitude is
\* within +-85.05112878 and the longitude within +-180.  Coordinates of the
\* model have at most four fractional digits, for which the latitude test is
\* |lat| <= 85.0511.
CoordsValid(point) ==
    /\ ParseFloatOk(point.latitude) /\ ParseFloatOk(point.longitude)
    /\ LET lat == ParseFloat(point.latitude)
           long == ParseFloat(point.longitude)
       IN  /\ lat.frac <= 4 /\ long.frac <= 4
           /\ lat.mant * Pow10(4 - lat.frac) <= 850511
           /\ long.mant <= 180 * Pow10(long.frac)

\* ----------------------------------------------------------- responses
\* command::response: each helper wraps one datum in CommandResponse::Single.

Single(data) == [kind |-> "Single", data |-> data]

Multiple(datas) == [kind |-> "Multiple", data |-> datas]

ReplconfAckResponse == [kind |-> "ReplconfAck"]

sstring_response(s) == Single([t |-> "SStr", v |-> s])

bstring_response(s) == Single([t |-> "BStr", v |-> s])

int_response(n) == Single([t |-> "Int", v |-> n])

error_response(msg) == Single([t |-> "Error", v |-> msg])

null_response == Single([t |-> "Null"])

null_array_response == Single([t |-> "NullArray"])

array_response(items) == Single([t |-> "Array", v |-> items])

NoReply == [kind |-> "none"]

\* ------------------------------------------------------------ server state

\* Client connections, each one task, and followers: connections that send
\* PSYNC and are handed to add_replica.
Conns == {"c1", "c2"}

Followers == {"r1", "r2"}

VARIABLES
    input,        \* the decoded array handed to Command::from on its own
    parsed,       \* what Command::from produced for it (NotParsed before the call)
    now,          \* the wall clock, in milliseconds
    store,        \* ServerContext.store: key -> entry
    replicas,     \* ServerContext.replicas: the ids add_channel registered
    mpsc,         \* follower -> the frames sent into its mpsc channel, oldest first
    fpc,          \* follower -> where add_replica stands for it
    psync_ok,     \* follower -> whether handlers::psync returned Ok
    mode,         \* connection -> "Normal" | "Transacting"
    transaction,  \* connection -> the commands buffered since MULTI
    pc,           \* connection -> "idle" | "exec" | "propagate" | "blocked" | "dead"
    todo,         \* connection -> the commands of its current (or last) call
    done,         \* connection -> how many of them execute_command has returned from
    in_txn,       \* connection -> whether todo is the buffer an EXEC took
    responses,    \* connection -> process_transaction's responses so far
    pending,      \* connection -> what the suspended execute_command resumes with
    reply,        \* connection -> the last CommandResponse handed back
    nreq,         \* number of arrays received so far
    applied,      \* history: the ids of the commands that changed the store, in order
    regAt,        \* history: follower -> Len(applied) when add_channel registered it
    lastSet       \* history: key -> the arguments of the last SET that took effect

\* The frames handlers::psync sends: the FULLRESYNC reply and the RDB payload.
\* op = 0 marks a frame that is no propagated command.
HandshakeFrames ==
    << [bytes |-> "FULLRESYNC", op |-> 0], [bytes |-> "RDB", op |-> 0] >>

SysInit ==
    /\ now = 0
    /\ store = <<>>
    /\ replicas = {}
    /\ mpsc = [f \in Followers |-> <<>>]
    /\ fpc = [f \in Followers |-> "connected"]
    /\ psync_ok = [f \in Followers |-> FALSE]
    /\ mode = [c \in Conns |-> "Normal"]
    /\ transaction = [c \in Conns |-> <<>>]
    /\ pc = [c \in Conns |-> "idle"]
    /\ todo = [c \in Conns |-> <<>>]
    /\ done = [c \in Conns |-> 0]
    /\ in_txn = [c \in Conns |-> FALSE]
    /\ responses = [c \in Conns |-> <<>>]
    /\ pending = [c \in Conns |-> <<>>]
    /\ reply = [c \in Conns |-> NoReply]
    /\ nreq = 0
    /\ applied = <<>>
    /\ regAt = [f \in Followers |-> 0]
    /\ lastSet = <<>>

connVars == <<mode, transaction, pc, todo, done, in_txn, responses, pending, reply>>

replVars == <<replicas, mpsc, fpc, psync_ok, regAt>>

sysVars == <<now, store, nreq, applied, lastSet, connVars, replVars>>

\* ---------------------------------------------------------------- dispatch

\* The command execute_command is running for connection c: todo[c] holds
\* the commands of the connection's current (or last) call, done[c] of them
\* have returned.
Cur(c) == todo[c][done[c] + 1]

\* process_transaction's loop body: only a Single response is pushed.
PushResponse(rs, r) == IF r.kind = "Single" THEN Append(rs, r.data) ELSE rs

\* execute_command returns r to its caller: the connection's dispatcher, or
\* process_transaction, which goes on with the next buffered command and
\* returns Multiple(responses) after the last.
Return(c, r) ==
    /\ done' = [done EXCEPT ![c] = @ + 1]
    /\ pending' = [pending EXCEPT ![c] = <<>>]
    /\ UNCHANGED <<todo, in_txn>>
    /\ IF in_txn[c]
       THEN LET rs == PushResponse(responses[c], r) IN
            /\ responses' = [responses EXCEPT ![c] = rs]
            /\ IF done[c] + 1 = Len(todo[c])
               THEN /\ pc' = [pc EXCEPT ![c] = "idle"]
                    /\ reply' = [reply EXCEPT ![c] = Multiple(rs)]
               ELSE /\ pc' = [pc EXCEPT ![c] = "exec"]
                    /\ UNCHANGED reply
       ELSE /\ pc' = [pc EXCEPT ![c] = "idle"]
            /\ reply' = [reply EXCEPT ![c] = r]
            /\ UNCHANGED responses

\* execute_command suspends before propagate(raw_command), to answer r after.
Suspend(c, r) ==
    /\ pc' = [pc EXCEPT ![c] = "propagate"]
    /\ pending' = [pending EXCEPT ![c] = [raw_command |-> Cur(c).raw_command,
                                          op |-> Cur(c).op, response |-> r]]
    /\ UNCHANGED <<todo, done, in_txn, responses, reply>>

\* An EXEC that never aborts.
ExecAbortsNever(commands) == FALSE

\* Whether EXEC aborts instead of running the buffer: it does when the parser
\* produced Invalid for one of the buffered commands.
ExecAborts(commands) == \E i \in 1..Len(commands) : commands[i].type = "Invalid"

\* The connection's dispatch loop takes the decoded array val and parses it.
\* In Transacting mode EXEC takes the buffer and hands it to
\* process_transaction, unless it aborts with an error; DISCARD drops the
\* buffer, and any other command is buffered and answered QUEUED.  In Normal
\* mode the command goes to execute_command, MULTI switching the mode.  A
\* panic of the parser ends the connection's task.  The command carries, as
\* history, the number of its request and the array it was parsed from.
Receive(c, val) ==
    \E parsed_cmd \in {CommandFrom(val, now)} :
    \E cmd \in {parsed_cmd @@ [op |-> nreq + 1, wire |-> val]} :
    LET panic == parsed_cmd = Panicked
        transacting == ~panic /\ mode[c] = "Transacting"
        exec == transacting /\ cmd.type = "Exec"
        discard == transacting /\ cmd.type = "Discard"
        abort == exec /\ ExecAborts(transaction[c])
        cmds == IF panic THEN <<>>
                ELSE IF exec THEN transaction[c]
                ELSE IF transacting THEN <<>>
                ELSE <<cmd>>
    IN
    /\ pc[c] = "idle"
    /\ nreq' = nreq + 1
    /\ todo' = [todo EXCEPT ![c] = cmds]
    /\ done' = [done EXCEPT ![c] = 0]
    /\ in_txn' = [in_txn EXCEPT ![c] = exec]
    /\ responses' = [responses EXCEPT ![c] = <<>>]
    /\ pending' = [pending EXCEPT ![c] = <<>>]
    /\ pc' = [pc EXCEPT ![c] = IF panic THEN "dead"
                                ELSE IF cmds = <<>> \/ abort THEN "idle"
                                ELSE "exec"]
    /\ mode' = [mode EXCEPT ![c] =
                   IF exec \/ discard THEN "Normal"
                   ELSE IF ~panic /\ cmd.type = "Multi" THEN "Transacting"
                   ELSE @]
    /\ transaction' = [transaction EXCEPT ![c] =
                          IF exec \/ discard THEN <<>>
                          ELSE IF transacting THEN Append(@, cmd)
                          ELSE @]
    /\ reply' = [reply EXCEPT ![c] =
                    IF abort THEN error_response("EXECABORT")
                    ELSE IF exec /\ cmds = <<>> THEN Multiple(<<>>)
                    ELSE IF discard THEN sstring_response("OK")
                    ELSE IF transacting /\ ~exec THEN sstring_response("QUEUED")
                    ELSE @]
    /\ UNCHANGED <<input, parsed, now, store, applied, lastSet, replVars>>

\* --------------------------------------------------------- execute_command
\* One action per arm of the match in execute_command, each up to the arm's
\* first suspension with the store already changed (the store call is awaited
\* before propagate is called, and nothing is held between the two).

Running(c, type) == pc[c] = "exec" /\ Cur(c).type = type

Forget(key) == [k \in (DOMAIN lastSet) \ {key} |-> lastSet[k]]

\* The `_ => null_response()` arm.
FallbackResponse == null_response

\* The arms that touch neither the store nor the replicas.
PureTypes ==
    {"Ping", "Echo", "Replconf", "ReplconfGetAck", "Multi",
     "Invalid", "Exec", "Discard", "Psync", "ReplconfAck", "Subscribe"}

PureResponse(cmd) ==
    IF cmd.type = "Ping" THEN sstring_response("PONG")
    ELSE IF cmd.type = "Echo" THEN bstring_response(cmd.value)
    ELSE IF cmd.type = "Replconf" THEN sstring_response("OK")
    ELSE IF cmd.type = "ReplconfGetAck" THEN ReplconfAckResponse
    ELSE IF cmd.type = "Multi" THEN sstring_response("OK")
    ELSE FallbackResponse

ExecPure(c) ==
    /\ pc[c] = "exec" /\ Cur(c).type \in PureTypes
    /\ Return(c, PureResponse(Cur(c)))
    /\ UNCHANGED <<input, parsed, now, store, nreq, applied, lastSet, mode, transaction, replVars>>

\* Command::Get
ExecGet(c) ==
    /\ Running(c, "Get")
    /\ store' = Purge(store, Cur(c).key, now)
    /\ Return(c, Single(HandlersGet(store, Cur(c).key, now)))
    /\ UNCHANGED <<input, parsed, now, nreq, applied, lastSet, mode, transaction, replVars>>

\* Command::Type and Command::LLen
ExecRead(c) ==
    /\ pc[c] = "exec" /\ Cur(c).type \in {"Type", "LLen"}
    /\ Return(c, IF Cur(c).type = "Type"
                 THEN sstring_response(TypeHandler(store, Cur(c).key, now))
                 ELSE int_response(StoreListLen(store, Cur(c).key, now)))
    /\ UNCHANGED <<input, parsed, now, store, nreq, applied, lastSet, mode, transaction, replVars>>

\* Command::Set, up to the call of propagate.
ExecSet(c) ==
    /\ Running(c, "Set")
    /\ store' = StoreSet(store, Cur(c).key, Cur(c).value, Cur(c).expiry)
    /\ applied' = Append(applied, Cur(c).op)
    /\ lastSet' = Put(lastSet, Cur(c).wire[2],
                      [value |-> Cur(c).wire[3], expiry |-> Cur(c).expiry])
    /\ Suspend(c, sstring_response("OK"))
    /\ UNCHANGED <<input, parsed, now, nreq, mode, transaction, replVars>>

\* What the Incr arm makes of store.incr's result: 0 is taken for the error.
IncrIsError(value) == value = 0

\* Command::Incr, up to the call of propagate.
ExecIncr(c) ==
    LET res == StoreIncr(store, Cur(c).key, now) IN
    /\ Running(c, "Incr")
    /\ store' = res.store
    /\ applied' = IF res.store # store THEN Append(applied, Cur(c).op) ELSE applied
    /\ lastSet' = Forget(Cur(c).key)
    /\ IF IncrIsError(res.value)
       THEN Return(c, error_response("value is not an integer or out of range"))
       ELSE Suspend(c, int_response(res.value))
    /\ UNCHANGED <<input, parsed, now, nreq, mode, transaction, replVars>>

\* A ListPush arm that propagates whatever list_push returned.
ExecListPushPropagatesAlways(c) ==
    LET res == StoreListPush(store, Cur(c).key, Cur(c).values, Cur(c).is_left, now) IN
    /\ Running(c, "ListPush")
    /\ store' = res.store
    /\ applied' = IF res.ok THEN Append(applied, Cur(c).op) ELSE applied
    /\ lastSet' = IF res.ok THEN Forget(Cur(c).key) ELSE lastSet
    /\ Suspend(c, IF res.ok THEN int_response(res.len) ELSE error_response("WRONGTYPE"))
    /\ UNCHANGED <<input, parsed, now, nreq, mode, transaction, replVars>>

\* Command::ListPush, up to the call of propagate.
ExecListPush(c) ==
    LET res == StoreListPush(store, Cur(c).key, Cur(c).values, Cur(c).is_left, now) IN
    /\ Running(c, "ListPush")
    /\ store' = res.store
    /\ applied' = IF res.ok THEN Append(applied, Cur(c).op) ELSE applied
    /\ lastSet' = IF res.ok THEN Forget(Cur(c).key) ELSE lastSet
    /\ IF res.ok
       THEN Suspend(c, int_response(res.len))
       ELSE Return(c, error_response("WRONGTYPE"))
    /\ UNCHANGED <<input, parsed, now, nreq, mode, transaction, replVars>>

\* An LPop arm that answers every popped vector as an array.
ExecLPopAlwaysArray(c) ==
    LET res == StoreListPop(store, Cur(c).key, Cur(c).count, now) IN
    /\ Running(c, "LPop")
    /\ store' = res.store
    /\ applied' = IF res.store # store THEN Append(applied, Cur(c).op) ELSE applied
    /\ Return(c, IF res.some THEN array_response(res.values) ELSE null_response)
    /\ UNCHANGED <<input, parsed, now, nreq, lastSet, mode, transaction, replVars>>

\* Command::LPop
ExecLPop(c) ==
    LET res == StoreListPop(store, Cur(c).key, Cur(c).count, now) IN
    /\ Running(c, "LPop")
    /\ store' = res.store
    /\ applied' = IF res.store # store THEN Append(applied, Cur(c).op) ELSE applied
    /\ Return(c, IF res.some /\ Len(res.values) = 1 THEN bstring_response(res.values[1])
                 ELSE IF res.some THEN array_response(res.values)
                 ELSE null_response)
    /\ UNCHANGED <<input, parsed, now, nreq, lastSet, mode, transaction, replVars>>

\* Command::XAdd
ExecXAdd(c) ==
    LET res == StoreAddStream(store, Cur(c).key, Cur(c).id, Cur(c).entry, now) IN
    /\ Running(c, "XAdd")
    /\ store' = res.store
    /\ applied' = IF res.ok THEN Append(applied, Cur(c).op) ELSE applied
    /\ lastSet' = IF res.ok THEN Forget(Cur(c).key) ELSE lastSet
    /\ Return(c, IF res.ok THEN bstring_response(res.id) ELSE error_response("ERR stream id"))
    /\ UNCHANGED <<input, parsed, now, nreq, mode, transaction, replVars>>

\* Command::ZAdd and Command::ZRem
ExecZSet(c) ==
    LET res == IF Cur(c).type = "ZAdd"
               THEN StoreZAdd(store, Cur(c).key, Cur(c).score, Cur(c).member, now)
               ELSE StoreZRem(store, Cur(c).key, Cur(c).member, now)
    IN
    /\ pc[c] = "exec" /\ Cur(c).type \in {"ZAdd", "ZRem"}
    /\ store' = res.store
    /\ applied' = IF res.store # store THEN Append(applied, Cur(c).op) ELSE applied
    /\ lastSet' = IF res.store # store THEN Forget(Cur(c).key) ELSE lastSet
    /\ Return(c, int_response(res.value))
    /\ UNCHANGED <<input, parsed, now, nreq, mode, transaction, replVars>>

\* Command::Geoadd: the store is called only for valid coordinates; geoadd
\* is a zadd whose score is the geohash of the point (kept as the point).
ExecGeoadd(c) ==
    LET res == StoreZAdd(store, Cur(c).key, Cur(c).point, Cur(c).member, now) IN
    /\ Running(c, "Geoadd")
    /\ IF CoordsValid(Cur(c).point)
       THEN /\ store' = res.store
            /\ applied' = IF res.store # store THEN Append(applied, Cur(c).op) ELSE applied
            /\ lastSet' = IF res.store # store THEN Forget(Cur(c).key) ELSE lastSet
            /\ Return(c, int_response(res.value))
       ELSE /\ UNCHANGED <<store, applied, lastSet>>
            /\ Return(c, error_response("ERR invalid longitude,latitude pair"))
    /\ UNCHANGED <<input, parsed, now, nreq, mode, transaction, replVars>>

\* The keys of a BLPOP that hold a non-empty list, and the first of them.
Ready(keys) ==
    {i \in 1..Len(keys) :
        /\ Live(store, keys[i], now)
        /\ store[keys[i]].value.kind = "List"
        /\ Len(store[keys[i]].value.items) > 0}

FirstReady(keys) == keys[CHOOSE i \in Ready(keys) : \A j \in Ready(keys) : i <= j]

\* blpop_handler pops one element of the first ready key: [key, value].
BLPopTake(c) ==
    LET key == FirstReady(Cur(c).keys)
        res == StoreListPop(store, key, 1, now)
    IN  /\ store' = res.store
        /\ applied' = Append(applied, Cur(c).op)
        /\ Return(c, array_response(<<key, res.values[1]>>))
        /\ UNCHANGED <<input, parsed, now, nreq, lastSet, mode, transaction, replVars>>

\* Command::BLPop: an element at once, or the caller is parked; block_ms = 0
\* parks without a deadline.
ExecBLPop(c) ==
    /\ Running(c, "BLPop")
    /\ IF Ready(Cur(c).keys) # {}
       THEN BLPopTake(c)
       ELSE /\ pc' = [pc EXCEPT ![c] = "blocked"]
            /\ pending' = [pending EXCEPT ![c] =
                              IF Cur(c).block_ms = 0 THEN None
                              ELSE Some(now + Cur(c).block_ms)]
            /\ UNCHANGED <<input, parsed, now, store, nreq, applied, lastSet, mode, transaction, replVars,
                           todo, done, in_txn, responses, reply>>

\* A push has made a key of the parked BLPOP ready.
BLPopWake(c) ==
    /\ pc[c] = "blocked"
    /\ Ready(Cur(c).keys) # {}
    /\ BLPopTake(c)

\* The deadline of the parked BLPOP has passed: a null array.
BLPopTimeout(c) ==
    /\ pc[c] = "blocked"
    /\ pending[c].some /\ now >= pending[c].v
    /\ Return(c, null_array_response)
    /\ UNCHANGED <<input, parsed, now, store, nreq, applied, lastSet, mode, transaction, replVars>>

\* ReplicaManager::broadcast(bytes): the frame is sent to every registered
\* follower's channel.
Broadcast(frame) == [f \in Followers |-> IF f \in replicas THEN Append(mpsc[f], frame) ELSE mpsc[f]]

\* The queue q with the frame put before its last element, as a send that
\* was overtaken by another leaves it.
Overtaken(q, frame) ==
    IF Len(q) = 0 THEN <<frame>>
    ELSE SubSeq(q, 1, Len(q) - 1) \o <<frame, q[Len(q)]>>

\* A propagate that does not hold the lock over the broadcast: each send may
\* be overtaken by a send of another broadcast.
PropagateUnlocked(c) ==
    /\ pc[c] = "propagate"
    /\ \E late \in [Followers -> BOOLEAN] :
          mpsc' = [f \in Followers |->
                      LET frame == [bytes |-> pending[c].raw_command, op |-> pending[c].op]
                      IN  IF f \notin replicas THEN mpsc[f]
                          ELSE IF late[f] THEN Append(mpsc[f], frame)
                          ELSE Overtaken(mpsc[f], frame)]
    /\ Return(c, pending[c].response)
    /\ UNCHANGED <<input, parsed, now, store, nreq, applied, lastSet, mode, transaction,
                   replicas, fpc, psync_ok, regAt>>

\* A propagate whose broadcast is never awaited: nothing is sent.
PropagateNotAwaited(c) ==
    /\ pc[c] = "propagate"
    /\ Return(c, pending[c].response)
    /\ UNCHANGED <<input, parsed, now, store, nreq, applied, lastSet, mode, transaction,
                   replVars>>

\* propagate(raw_command), under the replica manager's lock, and the arm's
\* response after it.
Propagate(c) ==
    /\ pc[c] = "propagate"
    /\ mpsc' = Broadcast([bytes |-> pending[c].raw_command, op |-> pending[c].op])
    /\ Return(c, pending[c].response)
    /\ UNCHANGED <<input, parsed, now, store, nreq, applied, lastSet, mode, transaction,
                   replicas, fpc, psync_ok, regAt>>

\* -------------------------------------------------------------- add_replica

\* add_replica, up to the lock of the replica manager: the channel is
\* created and handlers::psync(&tx, self) runs.  Ok or Err is psync's to
\* decide; on Ok the handshake frames are in the channel.
AddReplicaPsync(f) ==
    /\ fpc[f] = "connected"
    /\ \E ok \in BOOLEAN :
          /\ psync_ok' = [psync_ok EXCEPT ![f] = ok]
          /\ mpsc' = [mpsc EXCEPT ![f] = IF ok THEN HandshakeFrames ELSE <<>>]
    /\ fpc' = [fpc EXCEPT ![f] = "synced"]
    /\ UNCHANGED <<input, parsed, now, store, nreq, applied, lastSet, connVars, replicas, regAt>>

\* Whether add_replica goes on to add_channel after psync's result: an Err
\* is only logged.
RegistersAfter(ok) == TRUE

\* add_replica from the lock on: add_channel(replica_id, replica_state).
AddReplicaRegister(f) ==
    /\ fpc[f] = "synced"
    /\ fpc' = [fpc EXCEPT ![f] = IF RegistersAfter(psync_ok[f]) THEN "streaming" ELSE "closed"]
    /\ replicas' = IF RegistersAfter(psync_ok[f]) THEN replicas \cup {f} ELSE replicas
    /\ regAt' = [regAt EXCEPT ![f] = Len(applied)]
    /\ UNCHANGED <<input, parsed, now, store, nreq, applied, lastSet, connVars, mpsc, psync_ok>>

\* The clock advances.
Tick ==
    /\ now < MaxTime
    /\ now' = now + 1
    /\ UNCHANGED <<input, parsed, store, nreq, applied, lastSet, connVars, replVars>>

\* ------------------------------------------------- the parser on its inputs

NotParsed == [type |-> "none"]

\* The command names of the match in Command::from, some in another letter
\* case, and a name the match does not know.
CommandNames ==
    { <<"P", "I", "N", "G">>, <<"E", "C", "H", "O">>, <<"G", "E", "T">>, <<"g", "e", "t">>, <<"S", "E", "T">>, <<"s", "e", "t">>, <<"C", "O", "N", "F", "I", "G">>, <<"K", "E", "Y", "S">>, <<"I", "N", "F", "O">>, <<"P", "S", "Y", "N", "C">>,
      <<"R", "E", "P", "L", "C", "O", "N", "F">>, <<"W", "A", "I", "T">>, <<"T", "Y", "P", "E">>, <<"X", "A", "D", "D">>, <<"X", "R", "A", "N", "G", "E">>, <<"X", "R", "E", "A", "D">>, <<"x", "R", "e", "a", "d">>, <<"I", "N", "C", "R">>, <<"M", "U", "L", "T", "I">>,
      <<"E", "X", "E", "C">>, <<"D", "I", "S", "C", "A", "R", "D">>, <<"R", "P", "U", "S", "H">>, <<"L", "P", "U", "S", "H">>, <<"L", "R", "A", "N", "G", "E">>, <<"L", "L", "E", "N">>, <<"L", "P", "O", "P">>, <<"L", "p", "o", "p">>, <<"B", "L", "P", "O", "P">>,
      <<"b", "l", "p", "o", "p">>, <<"S", "U", "B", "S", "C", "R", "I", "B", "E">>, <<"P", "U", "B", "L", "I", "S", "H">>, <<"Z", "A", "D", "D">>, <<"Z", "R", "A", "N", "K">>, <<"Z", "R", "A", "N", "G", "E">>, <<"Z", "C", "A", "R", "D">>, <<"Z", "S", "C", "O", "R", "E">>,
      <<"Z", "R", "E", "M">>, <<"G", "E", "O", "A", "D", "D">>, <<"G", "E", "O", "P", "O", "S">>, <<"G", "E", "O", "D", "I", "S", "T">>, <<"G", "E", "O", "S", "E", "A", "R", "C", "H">>, <<"A", "C", "L">>, <<"F", "O", "O">> }

\* Argument texts: the empty string, numbers in the shapes is_number lets
\* through, and plain keys.
PlainArgs == { <<>>, <<"-">>, <<"1", ".", "5">>, <<"-", "1">>, <<"0">>, <<"2">>, <<"k">>, <<"j">> }

\* The keywords a command's arms test for.
KeywordArgs(name) ==
    LET u == to_uppercase(name) IN
    IF u = <<"S", "E", "T">> THEN { <<"p", "x">> }
    ELSE IF u = <<"C", "O", "N", "F", "I", "G">> THEN { <<"g", "e", "t">> }
    ELSE IF u = <<"I", "N", "F", "O">> THEN { <<"r", "e", "p", "l", "i", "c", "a", "t", "i", "o", "n">> }
    ELSE IF u = <<"R", "E", "P", "L", "C", "O", "N", "F">> THEN { <<"g", "e", "t", "a", "c", "k">>, <<"*">>, <<"A", "C", "K">> }
    ELSE IF u = <<"X", "R", "E", "A", "D">> THEN { <<"b", "l", "o", "c", "k">>, <<"S", "T", "R", "E", "A", "M", "S">> }
    ELSE {}

ArgBound(name) == IF to_uppercase(name) = <<"X", "R", "E", "A", "D">> THEN MaxXreadArgs ELSE MaxArgs

ParseInit ==
    /\ input \in { <<name>> : name \in CommandNames }
    /\ parsed = NotParsed
    /\ SysInit

\* The decoder appends one more bulk string to the array.
PushArg ==
    /\ parsed = NotParsed
    /\ Len(input) - 1 < ArgBound(input[1])
    /\ \E arg \in PlainArgs \cup KeywordArgs(input[1]) : input' = Append(input, arg)
    /\ UNCHANGED <<parsed, sysVars>>

\* Command::from(input), at clock 0.
Parse ==
    /\ parsed = NotParsed
    /\ parsed' = CommandFrom(input, 0)
    /\ UNCHANGED <<input, sysVars>>


\* ------------------------------------------------------------ specifications

parseVars == <<input, parsed>>

vars == <<input, parsed, sysVars>>

\* The arrays clients send in the server specification: one request or two
\* for each arm of execute_command the model covers.
Requests ==
    { << <<"S", "E", "T">>, <<"a">>, <<"1">> >>,
      << <<"s", "e", "t">>, <<"a">>, <<"-", "1">> >>,
      << <<"G", "E", "T">>, <<"a">> >>,
      << <<"I", "N", "C", "R">>, <<"a">> >>,
      << <<"R", "P", "U", "S", "H">>, <<"a">>, <<"x">>, <<"y">> >>,
      << <<"L", "P", "O", "P">>, <<"a">>, <<"2">> >>,
      << <<"B", "L", "P", "O", "P">>, <<"a">>, <<"0">> >>,
      << <<"X", "A", "D", "D">>, <<"a">>, <<"1", "-", "1">>, <<"f">>, <<"v">> >>,
      << <<"Z", "A", "D", "D">>, <<"a">>, <<"1", ".", "5">>, <<"m">> >>,
      << <<"Z", "R", "E", "M">>, <<"a">>, <<"m">> >>,
      << <<"G", "E", "O", "A", "D", "D">>, <<"a">>, <<"2", "0", "0">>, <<"1", "0">>, <<"m">> >>,
      << <<"G", "E", "O", "A", "D", "D">>, <<"a">>, <<"2">>, <<"1", "0">>, <<"m">> >>,
      << <<"T", "Y", "P", "E">>, <<"a">> >>,
      << <<"L", "L", "E", "N">>, <<"a">> >>,
      << <<"P", "I", "N", "G">> >>,
      << <<"F", "O", "O">>, <<"a">> >>,
      << <<"R", "E", "P", "L", "C", "O", "N", "F">>, <<"G", "E", "T", "A", "C", "K">>, <<"*">> >> }

Init ==
    /\ input = <<>>
    /\ parsed = NotParsed
    /\ SysInit

ClientSends(R, max) == \E c \in Conns, val \in R : nreq < max /\ Receive(c, val)

Executes ==
    \E c \in Conns :
        \/ ExecPure(c) \/ ExecGet(c) \/ ExecRead(c) \/ ExecSet(c) \/ ExecIncr(c)
        \/ ExecListPush(c) \/ ExecLPop(c) \/ ExecXAdd(c) \/ ExecZSet(c) \/ ExecGeoadd(c)
        \/ ExecBLPop(c) \/ BLPopWake(c) \/ Propagate(c)

Next ==
    \/ ClientSends(Requests, MaxRequests)
    \/ Executes
    \/ AddReplicaPsync("r1") \/ AddReplicaRegister("r1")

Spec == Init /\ [][Next]_vars

ParseNext == PushArg \/ Parse

SpecParse == ParseInit /\ [][ParseNext]_vars

\* The arrays clients send in the replication specification.
ReplRequests ==
    { << <<"S", "E", "T">>, <<"a">>, <<"1">> >>,
      << <<"S", "E", "T">>, <<"a">>, <<"2">> >>,
      << <<"I", "N", "C", "R">>, <<"a">> >>,
      << <<"R", "P", "U", "S", "H">>, <<"l">>, <<"x">> >> }

ReplNext ==
    \/ ClientSends(ReplRequests, MaxReplRequests)
    \/ \E c \in Conns : ExecSet(c) \/ ExecIncr(c) \/ ExecListPush(c) \/ Propagate(c)
    \/ \E f \in Followers : AddReplicaPsync(f) \/ AddReplicaRegister(f)

SpecRepl == Init /\ [][ReplNext]_vars

\* The arrays clients send in the blocking specification.
BlockRequests ==
    { << <<"B", "L", "P", "O", "P">>, <<"a">>, <<"b">>, <<"0">> >>,
      << <<"b", "l", "p", "o", "p">>, <<"a">>, <<"0", ".", "0", "0", "1">> >>,
      << <<"R", "P", "U", "S", "H">>, <<"a">>, <<"x">>, <<"y">> >>,
      << <<"L", "P", "U", "S", "H">>, <<"b">>, <<"z">> >> }

BlockNext ==
    \/ ClientSends(BlockRequests, MaxBlockRequests)
    \/ \E c \in Conns :
          \/ ExecBLPop(c) \/ BLPopWake(c) \/ BLPopTimeout(c)
          \/ ExecListPush(c) \/ Propagate(c)
    \/ Tick

SpecBlock == Init /\ [][BlockNext]_vars

\* The arrays clients send in the transaction specification.
TxnRequests ==
    { << <<"M", "U", "L", "T", "I">> >>,
      << <<"E", "X", "E", "C">> >>,
      << <<"D", "I", "S", "C", "A", "R", "D">> >>,
      << <<"S", "E", "T">>, <<"a">>, <<"1">> >>,
      << <<"F", "O", "O">>, <<"a">> >>,
      << <<"R", "E", "P", "L", "C", "O", "N", "F">>, <<"G", "E", "T", "A", "C", "K">>, <<"*">> >> }

TxnNext ==
    \/ ClientSends(TxnRequests, MaxTxnRequests)
    \/ \E c \in Conns : ExecPure(c) \/ ExecSet(c) \/ Propagate(c)
    \/ AddReplicaPsync("r1") \/ AddReplicaRegister("r1")

SpecTxn == Init /\ [][TxnNext]_vars

\* The arrays clients send in the SET/GET specification; the RPUSH makes an
\* entry of another kind for a SET to replace.
SetGetRequests ==
    { << <<"S", "E", "T">>, <<"a">>, <<"1">> >>,
      << <<"s", "e", "t">>, <<"a">>, <<"2">>, <<"p", "x">>, <<"1">> >>,
      << <<"G", "E", "T">>, <<"a">> >>,
      << <<"R", "P", "U", "S", "H">>, <<"a">>, <<"x">> >> }

SetGetNext ==
    \/ ClientSends(SetGetRequests, MaxSetGetRequests)
    \/ \E c \in Conns : ExecGet(c) \/ ExecSet(c) \/ ExecListPush(c) \/ Propagate(c)
    \/ Tick

SpecSetGet == Init /\ [][SetGetNext]_vars

\* The arrays clients send in the propagation specification: the writes that
\* carry raw_command, in Normal mode and under MULTI.
WireRequests ==
    { << <<"M", "U", "L", "T", "I">> >>,
      << <<"e", "x", "e", "c">> >>,
      << <<"s", "e", "t">>, <<"a">>, <<"7">>, <<"p", "x">>, <<"2">> >>,
      << <<"I", "N", "C", "R">>, <<"a">> >>,
      << <<"L", "P", "U", "S", "H">>, <<"l">>, <<>>, <<"x">> >>,
      << <<"R", "P", "U", "S", "H">>, <<"l">>, <<"y">> >> }

WireNext ==
    \/ ClientSends(WireRequests, MaxWireRequests)
    \/ \E c \in Conns :
          ExecPure(c) \/ ExecSet(c) \/ ExecIncr(c) \/ ExecListPush(c) \/ Propagate(c)
    \/ AddReplicaPsync("r1") \/ AddReplicaRegister("r1")

SpecWire == Init /\ [][WireNext]_vars

\* The arrays clients send in the rejection specification: writes that
\* succeed, writes the store or the executor rejects, and reads.
RejectRequests ==
    { << <<"S", "E", "T">>, <<"a">>, <<"x">> >>,
      << <<"R", "P", "U", "S", "H">>, <<"a">>, <<"y">> >>,
      << <<"I", "N", "C", "R">>, <<"a">> >>,
      << <<"G", "E", "O", "A", "D", "D">>, <<"a">>, <<"2">>, <<"9", "0">>, <<"m">> >>,
      << <<"G", "E", "O", "A", "D", "D">>, <<"g">>, <<"2">>, <<"1", "0">>, <<"m">> >>,
      << <<"G", "E", "T">>, <<"a">> >>,
      << <<"L", "L", "E", "N">>, <<"a">> >>,
      << <<"P", "I", "N", "G">> >> }

RejectNext ==
    \/ ClientSends(RejectRequests, MaxRejectRequests)
    \/ \E c \in Conns :
          \/ ExecPure(c) \/ ExecGet(c) \/ ExecRead(c) \/ ExecSet(c) \/ ExecIncr(c)
          \/ ExecListPush(c) \/ ExecGeoadd(c) \/ Propagate(c)
    \/ AddReplicaPsync("r1") \/ AddReplicaRegister("r1")

SpecReject == Init /\ [][RejectNext]_vars

\* The arrays clients send in the list specification.
ListRequests ==
    { << <<"R", "P", "U", "S", "H">>, <<"l">>, <<"a">>, <<"b">>, <<"c">> >>,
      << <<"L", "P", "U", "S", "H">>, <<"l">>, <<"z">> >>,
      << <<"L", "P", "O", "P">>, <<"l">> >>,
      << <<"l", "p", "o", "p">>, <<"l">>, <<"2">> >>,
      << <<"L", "P", "O", "P">>, <<"l">>, <<"0">> >>,
      << <<"S", "E", "T">>, <<"l">>, <<"s">> >> }

ListNext ==
    \/ ClientSends(ListRequests, MaxListRequests)
    \/ \E c \in Conns : ExecListPush(c) \/ ExecLPop(c) \/ ExecSet(c) \/ Propagate(c)

SpecList == Init /\ [][ListNext]_vars

\* The arrays clients send in the ordering specification.
OrderRequests ==
    { << <<"S", "E", "T">>, <<"a">>, <<"1">> >>,
      << <<"S", "E", "T">>, <<"a">>, <<"2">> >>,
      << <<"R", "P", "U", "S", "H">>, <<"l">>, <<"x">> >> }

OrderNext ==
    \/ ClientSends(OrderRequests, MaxOrderRequests)
    \/ \E c \in Conns : ExecSet(c) \/ ExecListPush(c) \/ Propagate(c)
    \/ \E f \in Followers : AddReplicaPsync(f) \/ AddReplicaRegister(f)

SpecOrder == Init /\ [][OrderNext]_vars

\* The arrays clients send in the isolation specification.
IsoRequests ==
    { << <<"M", "U", "L", "T", "I">> >>,
      << <<"E", "X", "E", "C">> >>,
      << <<"S", "E", "T">>, <<"a">>, <<"1">> >>,
      << <<"I", "N", "C", "R">>, <<"a">> >> }

IsoNext ==
    \/ ClientSends(IsoRequests, MaxIsoRequests)
    \/ \E c \in Conns : ExecPure(c) \/ ExecSet(c) \/ ExecIncr(c) \/ Propagate(c)
    \/ AddReplicaPsync("r1") \/ AddReplicaRegister("r1")

SpecIso == Init /\ [][IsoNext]_vars

\* ------------------------------------------------------------------ claims

\* The position of x in a sequence that holds it.
Pos(seq, x) == CHOOSE i \in 1..Len(seq) : seq[i] = x

\* How many frames of a channel carry the command with id op.
Count(q, op) == Cardinality({i \in 1..Len(q) : q[i].op = op})

Quiescent == \A c \in Conns : pc[c] = "idle"

\* Connection c takes a step of execute_command for a command of this type.
Steps(c, type) ==
    /\ pc[c] = "exec" /\ Cur(c).type = type
    /\ (pc'[c] # pc[c] \/ done'[c] # done[c])

\* C1: the propagated commands enter every replica's channel in the order in
\* which their store mutations took effect on the master.
C1_ReplicaOrderMatchesStoreOrder ==
    \A f \in replicas : \A i, j \in 1..Len(mpsc[f]) :
        (i < j /\ mpsc[f][i].op # 0 /\ mpsc[f][j].op # 0)
            => Pos(applied, mpsc[f][i].op) < Pos(applied, mpsc[f][j].op)

\* C2: once every command has returned, each store mutation applied after a
\* replica was registered is in that replica's channel exactly once.
C2_EveryMutationBroadcastOnce ==
    Quiescent =>
        \A f \in replicas : \A i \in (regAt[f] + 1)..Len(applied) :
            Count(mpsc[f], applied[i]) = 1

\* C3: Command::from returns a Command for every array of bulk strings; it
\* never panics.
C3_CommandFromNeverPanics == parsed # Panicked

\* C4: execute_command answers Command::Invalid with an error response and
\* leaves the store and the replica channels unchanged.
C4_InvalidAnsweredWithError ==
    [][\A c \in Conns :
          (Steps(c, "Invalid") /\ ~in_txn[c])
              => /\ reply'[c].kind = "Single" /\ reply'[c].data.t = "Error"
                 /\ store' = store /\ mpsc' = mpsc]_vars

\* C5: process_transaction pushes one reply for each command it has executed
\* and returns them all, one per buffered command, as one Multiple response.
C5_OneReplyPerBufferedCommand ==
    \A c \in Conns :
        (in_txn[c] /\ ~ExecAborts(todo[c])) =>
            /\ Len(responses[c]) = done[c]
            /\ (pc[c] = "idle" =>
                    reply[c] = Multiple(responses[c]) /\ Len(reply[c].data) = Len(todo[c]))

C7_IncrRepliesSuccessor ==
    [][\A c \in Conns :
          Steps(c, "Incr") =>
              LET key == Cur(c).key
                  isInt == store[key].value.kind = "String" /\ ParseSignedOk(store[key].value.s)
                  expect == IF ~Live(store, key, now) THEN 1
                            ELSE ParseSigned(store[key].value.s) + 1
              IN  IF ~Live(store, key, now) \/ isInt
                  THEN /\ pc'[c] = "propagate"
                       /\ pending'[c].response = int_response(expect)
                  ELSE pc'[c] # "propagate"]_vars

\* C8: a GET of a key answers the value of the last SET of that key that took
\* effect in the store, provided its expiry has not passed; and a SET leaves
\* the string it was sent under its key, whatever was there.
C8_GetReturnsLastSet ==
    [][\A c \in Conns :
          /\ (/\ Steps(c, "Get")
              /\ Cur(c).wire[2] \in DOMAIN lastSet
              /\ ~(lastSet[Cur(c).wire[2]].expiry.some
                     /\ now > lastSet[Cur(c).wire[2]].expiry.v))
                => reply'[c] = bstring_response(lastSet[Cur(c).wire[2]].value)
          /\ Steps(c, "Set")
                => /\ Cur(c).wire[2] \in DOMAIN store'
                   /\ store'[Cur(c).wire[2]].value = StringValue(Cur(c).wire[3])]_vars

\* A GET that was answered the value another connection's SET had stored.
C8_GetAnsweredOtherConnectionsSet ==
    \E c, d \in Conns :
        /\ c # d
        /\ pc[c] = "idle" /\ done[c] = 1 /\ todo[c][1].type = "Get"
        /\ reply[c].kind = "Single" /\ reply[c].data.t = "BStr"
        /\ done[d] = 1 /\ todo[d][1].type = "Set"
        /\ todo[d][1].wire[2] = todo[c][1].wire[2]
        /\ reply[c].data.v = todo[d][1].wire[3]
        /\ Len(applied) >= 2

\* The arguments of an XREAD after STREAMS (and after BLOCK ms, if given).
XreadTail(val) ==
    IF Len(val) >= 2 /\ eq_ignore_ascii_case(val[2], <<"S", "T", "R", "E", "A", "M", "S">>)
    THEN Some(Len(val) - 2)
    ELSE IF /\ Len(val) >= 4
            /\ eq_ignore_ascii_case(val[2], <<"B", "L", "O", "C", "K">>)
            /\ ParseUnsignedOk(val[3])
            /\ eq_ignore_ascii_case(val[4], <<"S", "T", "R", "E", "A", "M", "S">>)
    THEN Some(Len(val) - 4)
    ELSE None

\* C9: an XREAD with an odd number of arguments after STREAMS parses to
\* Command::Invalid.
C9_UnbalancedXreadIsInvalid ==
    (/\ parsed # NotParsed
     /\ to_uppercase(input[1]) = <<"X", "R", "E", "A", "D">>
     /\ XreadTail(input).some
     /\ XreadTail(input).v % 2 = 1)
        => parsed = Invalid

\* C10: only a follower whose PSYNC handshake succeeded is registered in the
\* replica manager, and a follower whose handshake failed is sent nothing.
C10_OnlySyncedFollowersRegistered ==
    \A f \in Followers :
        /\ f \in replicas => psync_ok[f]
        /\ (fpc[f] # "connected" /\ ~psync_ok[f]) => mpsc[f] = <<>>

\* What a replica reads from a frame: the decimal number that starts at
\* position i of s, and the position after it.
RECURSIVE ReadNum(_, _, _)
ReadNum(s, i, acc) ==
    IF i <= Len(s) /\ s[i] \in Digits
    THEN ReadNum(s, i + 1, 10 * acc + DigitVal(s[i]))
    ELSE [v |-> acc, next |-> i]

\* The k bulk strings ("$len\r\ntext\r\n") that start at position i of s.
RECURSIVE DecodeBulks(_, _, _)
DecodeBulks(s, i, k) ==
    IF k = 0 THEN <<>>
    ELSE LET n == ReadNum(s, i + 1, 0)
             from == n.next + 2
         IN  <<SubSeq(s, from, from + n.v - 1)>> \o DecodeBulks(s, from + n.v + 2, k - 1)

\* The array of bulk strings a RESP array frame ("*n\r\n" and n bulk
\* strings) decodes to.
DecodeArray(s) ==
    LET n == ReadNum(s, 2, 0) IN DecodeBulks(s, n.next + 2, n.v)

\* C11: the frame propagate hands to every registered replica is the
\* raw_command the parser built for the command, and it decodes to the array
\* the command was parsed from, element for element.
C11_PropagatesOwnArray ==
    [][\A c \in Conns :
          (pc[c] = "propagate" /\ pc'[c] # "propagate") =>
              \A f \in replicas :
                  /\ Len(mpsc'[f]) = Len(mpsc[f]) + 1
                  /\ mpsc'[f][Len(mpsc'[f])].bytes = Cur(c).raw_command
                  /\ mpsc'[f][Len(mpsc'[f])].bytes[1] = "*"
                  /\ DecodeArray(mpsc'[f][Len(mpsc'[f])].bytes) = Cur(c).wire]_vars

\* A SET with PX that was queued under MULTI and run by EXEC is in the
\* replica's channel.
C11_QueuedSetReachedReplica ==
    \E c \in Conns :
        /\ in_txn[c] /\ done[c] = 1 /\ todo[c][1].type = "Set"
        /\ todo[c][1].expiry.some
        /\ "r1" \in replicas
        /\ \E i \in 1..Len(mpsc["r1"]) : mpsc["r1"][i].op = todo[c][1].op

\* C12: BLPOP key... t parses to BLPop with the keys in order and the timeout
\* in milliseconds, and the milliseconds are 0 exactly when t is zero.
C12_BlpopZeroOnlyForZero ==
    parsed.type = "BLPop" =>
        LET t == ParseFloat(input[Len(input)]) IN
        /\ parsed.keys = SubSeq(input, 2, Len(input) - 1)
        /\ (~t.neg /\ t.frac <= 3) => parsed.block_ms * Pow10(t.frac) = t.mant * 1000
        /\ parsed.block_ms = 0 <=> t.mant = 0

\* The commands of the model that only read.
ReadOnlyTypes == {"Ping", "Echo", "Get", "LLen", "Type"}

\* Whether the key holds a live entry of another kind than kind.
HoldsOtherKind(key, kind) == Live(store, key, now) /\ store[key].value.kind # kind

\* The step of connection c leaves the replicas alone and does not go on to
\* propagate.
NoBroadcast(c) == mpsc' = mpsc /\ pc'[c] # "propagate"

IsError(r) == r.kind = "Single" /\ r.data.t = "Error"

\* The step of connection c answers its command with an error, without a
\* broadcast.
Rejects(c) == done'[c] = done[c] + 1 /\ IsError(reply'[c]) /\ NoBroadcast(c)

HasBlockOption(val) ==
    /\ Len(val) >= 3
    /\ to_uppercase(val[1]) = <<"X", "R", "E", "A", "D">>
    /\ to_uppercase(val[2]) = <<"B", "L", "O", "C", "K">>
    /\ is_number(val[3])

\* C14: is_blocking is true exactly for a parsed BLPOP and for an XREAD
\* parsed with a BLOCK option, and false for every other command, a
\* Transaction that holds a blocking command included.
C14_BlockingExactlyBlpopAndXreadBlock ==
    (parsed # NotParsed /\ parsed # Panicked) =>
        /\ is_blocking(parsed) <=>
              \/ to_uppercase(input[1]) = <<"B", "L", "P", "O", "P">> /\ parsed # Invalid
              \/ HasBlockOption(input)
        /\ ~is_blocking([type |-> "Transaction", commands |-> <<parsed>>])

\* An XREAD BLOCK 0 was parsed, and is blocking.
C14_XreadBlockZeroParsed ==
    /\ parsed.type = "XRead" /\ parsed.block = Some(0)
    /\ is_blocking(parsed)

\* The position of the first key of an XREAD whose keyword is in place.
XreadKeysFrom(val) ==
    IF eq_ignore_ascii_case(val[2], <<"S", "T", "R", "E", "A", "M", "S">>) THEN 3 ELSE 5

\* XREAD [BLOCK ms] STREAMS key1..keyN id1..idN with N >= 1.
WellFormedXread(val) ==
    /\ to_uppercase(val[1]) = <<"X", "R", "E", "A", "D">>
    /\ XreadTail(val).some
    /\ XreadTail(val).v >= 2 /\ XreadTail(val).v % 2 = 0

\* C15: a well-formed XREAD parses to XRead with the i-th key paired with the
\* i-th id, in order, and block the BLOCK milliseconds, or None without BLOCK.
C15_XreadPairsKeysWithIds ==
    (parsed # NotParsed /\ WellFormedXread(input)) =>
        LET from == XreadKeysFrom(input)
            n == XreadTail(input).v \div 2
        IN  /\ parsed.type = "XRead"
            /\ parsed.streams = [i \in 1..n |-> <<input[from + i - 1], input[from + n + i - 1]>>]
            /\ parsed.block = IF from = 5 THEN Some(DigitsValue(input[3])) ELSE None

\* An XREAD of two streams was parsed.
C15_TwoStreamsParsed ==
    /\ parsed.type = "XRead" /\ WellFormedXread(input)
    /\ Len(parsed.streams) = 2
    /\ parsed.streams[1][1] # parsed.streams[1][2]

\* C16: LPOP key [count], count 1 when not given, removes the first
\* min(count, length) elements of the list and answers them in list order:
\* null for an absent key, one bulk string when one element was popped, an
\* array otherwise.
C16_LpopRepliesHeadOfList ==
    [][\A c \in Conns :
          Steps(c, "LPop") =>
              LET key == Cur(c).wire[2]
                  count == IF Len(Cur(c).wire) = 2 THEN 1 ELSE DigitsValue(Cur(c).wire[3])
              IN  IF ~Live(store, key, now)
                  THEN reply'[c] = null_response /\ key \notin DOMAIN store'
                  ELSE store[key].value.kind = "List" =>
                         LET items == store[key].value.items
                             k == IF count < Len(items) THEN count ELSE Len(items)
                         IN  /\ reply'[c] = IF k = 1
                                            THEN bstring_response(items[1])
                                            ELSE array_response([i \in 1..k |-> items[i]])
                             /\ store'[key].value.items =
                                    [i \in 1..(Len(items) - k) |-> items[k + i]]]_vars

\* An LPOP with count 2 popped the one element of the list and was answered
\* a bulk string.
C16_CountTwoPoppedOne ==
    \E c \in Conns :
        /\ pc[c] = "idle" /\ done[c] = 1 /\ todo[c][1].type = "LPop"
        /\ todo[c][1].count = 2
        /\ reply[c] = bstring_response(<<"z">>)
        /\ <<"l">> \in DOMAIN store
        /\ store[<<"l">>].value = [kind |-> "List", items |-> <<>>]

\* The ids of the propagated commands in a follower's channel, in order.
Ops(f) ==
    LET IsWrite(frame) == frame.op # 0
        writes == SelectSeq(mpsc[f], IsWrite)
    IN  [i \in 1..Len(writes) |-> writes[i].op]

IsSuffix(s, t) == Len(s) <= Len(t) /\ s = SubSeq(t, Len(t) - Len(s) + 1, Len(t))

\* C17: broadcasts are mutually exclusive: of any two registered replicas,
\* the propagated commands of one are a suffix of the other's, so they agree
\* on the order and a replica registered later misses only a prefix.
C17_ReplicasAgreeOnBroadcastOrder ==
    \A f, g \in replicas : IsSuffix(Ops(f), Ops(g)) \/ IsSuffix(Ops(g), Ops(f))

\* Two commands were propagated; one replica has both, the other, registered
\* in between, the second only.
C17_RegisteredInBetween ==
    /\ replicas = Followers
    /\ Len(Ops("r1")) = 2 /\ Len(Ops("r2")) = 1
    /\ Ops("r2")[1] = Ops("r1")[2]

\* C18: in a follower's channel no propagated command precedes a handshake
\* frame, the channel of a follower that synced starts with the handshake
\* frames, and a propagate that runs adds its command to the channel of every
\* replica registered by then.
C18_HandshakeThenEveryLaterWrite ==
    [][/\ \A f \in Followers : \A i, j \in 1..Len(mpsc'[f]) :
              (i < j /\ mpsc'[f][j].op = 0) => mpsc'[f][i].op = 0
       /\ \A f \in replicas' :
              psync_ok'[f] => SubSeq(mpsc'[f], 1, Len(HandshakeFrames)) = HandshakeFrames
       /\ \A c \in Conns :
              (pc[c] = "propagate" /\ pc'[c] # "propagate") =>
                  \A f \in replicas :
                      Count(mpsc'[f], Cur(c).op) = Count(mpsc[f], Cur(c).op) + 1]_vars

\* A follower synced and was registered after one write had been applied,
\* and the write propagated after that follows the handshake in its channel.
C18_WriteAfterHandshake ==
    /\ "r1" \in replicas /\ psync_ok["r1"] /\ regAt["r1"] = 1
    /\ Len(mpsc["r1"]) = Len(HandshakeFrames) + 1
    /\ mpsc["r1"][Len(mpsc["r1"])].op = 2

\* Connection c is between two commands of its EXEC: one has returned and
\* another is still to return.
MidTransaction(c) ==
    /\ in_txn[c] /\ pc[c] \in {"exec", "propagate"}
    /\ 1 <= done[c] /\ done[c] < Len(todo[c])

\* C19: while a connection is between two commands of its EXEC, no other
\* connection's command changes the store or enters a replica's channel.
C19_TransactionIsolated ==
    [][\A c \in Conns :
          (MidTransaction(c) /\ (store' # store \/ mpsc' # mpsc))
              => (pc'[c] # pc[c] \/ done'[c] # done[c] \/ fpc' # fpc)]_vars

====
